---- MODULE Spec2Model ----
(***************************************************************************)
(* Order management with SMS verification (src/main.py).                   *)
(*                                                                         *)
(* State: the two tables (verification_sessions, orders), the clock, the   *)
(* request workers with the ORM objects each one holds between its         *)
(* statements, and history variables recording what was created.           *)
(*                                                                         *)
(* Time unit: one tick is ten minutes.  No handler holds a lock, and the   *)
(* sync handlers run on a thread pool, so every request is one step per    *)
(* database round trip or provider call: initiate counts, then sends the   *)
(* PIN and inserts; verify and resend-code look the session up, call the   *)
(* provider and commit; a status update or a cancellation resolves its     *)
(* bearer token in the dependency, reads and checks the order in the       *)
(* handler body, and commits.  Other requests and the clock interleave     *)
(* between these steps.                                                    *)
(***************************************************************************)
EXTENDS Integers, Sequences, FiniteSets, TLC

\* ---------------------------------------------------------------- bounds
MaxTokens == 2          \* sessions ever created (Spec)
MaxOrders == 2          \* orders ever created (Spec, SpecRace, SpecRate)
MaxTime == 1            \* clock ticks (Spec, SpecRace)
MaxAttempts == 1        \* rejected attempts counted on one session
MaxRemaining == 1       \* largest attemptsRemaining the provider reports
MaxPins == 2            \* PINs sent for one session
RaceTokens == 1         \* sessions ever created (SpecRace)
OrderTokens == 2        \* sessions ever created (SpecOrders)
OrderMaxTime == 1       \* clock ticks (SpecOrders)
OrderCap == 1           \* orders ever created (SpecOrders)
TableTokens == 2        \* sessions ever created (SpecTable)
TableCap == 1           \* orders ever created (SpecTable)
FrameTokens == 2        \* sessions ever created (SpecFrame)
FrameMaxTime == 1       \* clock ticks (SpecFrame)
FrameCap == 1           \* orders ever created (SpecFrame)
MaxBooks == 2           \* items of one order intent (SpecTotal)
MaxPrice == 2           \* largest price of an item, in whole units (SpecTotal)
MaxQuantity == 2        \* largest quantity of an item (SpecTotal)
ResendTokens == 5       \* sessions ever created (SpecResend)
ResendPins == 6         \* PINs sent for one session (SpecResend)
ResendMaxTime == 1      \* clock ticks (SpecResend)
RateTokens == 6         \* sessions ever created (SpecRate)
RateMaxTime == 6        \* clock ticks (SpecRate)

\* ----------------------------------------------------- program constants
RateLimit == 5          \* main.py:253
RateWindow == 6         \* main.py:250  timedelta(hours=1), in ticks
SessionTTL == 1         \* main.py:284  timedelta(minutes=10), in ticks

Workers == {1, 2}
Phones == {1, 2}
NoToken == 0            \* a bearer/session token that initiate never issued

\* main.py:84-90
OrderStatus == {"pending", "verified", "processing", "shipped", "delivered", "cancelled"}

\* HTTP status codes raised or returned by the handlers
HTTP_200 == 200
HTTP_202 == 202
HTTP_400 == 400
HTTP_401 == 401
HTTP_403 == 403
HTTP_404 == 404
HTTP_429 == 429
HTTP_500 == 500
HTTP_503 == 503

VARIABLES
    now,        \* datetime.utcnow()
    sessions,   \* table verification_sessions: session_token -> row
    orders,     \* table orders: sequence indexed by id
    nextToken,  \* tokens issued so far + 1 (secrets.token_urlsafe is fresh)
    calls,      \* per worker: the request in progress, or the last one done
    origin,     \* history: per order id, the session it was created from
    issued      \* history: per token issued, the request and what it returned

vars == <<now, sessions, orders, nextToken, calls, origin, issued>>

\* ------------------------------------------------------------- helpers
Stored(t) == t \in DOMAIN sessions

\* db.delete(session); db.commit(): the DELETE names the row by its key; one
\* that matches no row is reported as a warning, not as an error
DeleteRow(t) == [x \in (DOMAIN sessions) \ {t} |-> sessions[x]]

\* LiveRow with the deadline itself still counted as live
LiveRow_Inclusive(t) == Stored(t) /\ sessions[t].expires_at >= now

\* The filter used by every session lookup:
\*   session_token == token AND expires_at > utcnow()
LiveRow(t) == Stored(t) /\ sessions[t].expires_at > now

\* db.commit() after assignments to a loaded object: the UPDATE carries only
\* the attributes whose assigned value differs from the value this request
\* loaded; every other column keeps what is stored
Flushed(loaded, value, stored) == IF value # loaded THEN value ELSE stored

\* Book.price is a float: prices are written in units of 1/PriceScale, so
\* that price 3 is 1.5 and int() of a total has something to truncate.
PriceScale == 2

\* Book.price has no lower bound: the lowest price submitted, -1/PriceScale
LowestPrice == -1

\* main.py:98-108  an OrderRequest without its phone number; the books are
\* written with their price and quantity
Intent(address, payment_method, books) ==
    [address |-> address, payment_method |-> payment_method, books |-> books]

\* main.py:92-96  the Book items a request can carry: price is a float, here
\* every multiple of 1/PriceScale from LowestPrice up to MaxPrice, quantity
\* is 1..MaxQuantity
Books == [price : LowestPrice .. (MaxPrice * PriceScale),
          quantity : 1 .. MaxQuantity]

\* main.py:102-108  books is a list with at least one item
BookLists == UNION {[1 .. n -> Books] : n \in 1 .. MaxBooks}

\* The order intent submitted to initiate in the lifecycle specifications
Intents ==
    { Intent("12 Lake Road", "bkash",
             <<[price |-> 3, quantity |-> 1], [price |-> 2, quantity |-> 2]>>) }

\* main.py:370  int(order_data["total_amount"]) drops the fraction of the
\* float: it rounds toward zero, for a negative total as well
int(x) == IF x >= 0 THEN x \div PriceScale ELSE -((-x) \div PriceScale)

RECURSIVE SumBooks_IgnoresQuantity(_)
\* SumBooks that adds the prices up without the quantities
SumBooks_IgnoresQuantity(books) ==
    IF books = <<>> THEN 0
    ELSE Head(books).price + SumBooks_IgnoresQuantity(Tail(books))

RECURSIVE SumBooks(_)
\* main.py:260  sum(book.price * book.quantity for book in order.books)
SumBooks(books) ==
    IF books = <<>> THEN 0
    ELSE Head(books).price * Head(books).quantity + SumBooks(Tail(books))

\* A worker's request: op/pc say where it is, snap is what the request holds
\* in memory (the ORM object loaded by its lookup, or the validated request
\* of an initiate), res/remaining the provider's answer, status the HTTP
\* response once pc = "done", order the id of the Order it inserted or is
\* about to update, req the order_status it is about to write.
IdleCall == [op |-> "none", pc |-> "idle", token |-> NoToken, snap |-> <<>>,
             res |-> "none", remaining |-> 0, status |-> 0, order |-> 0,
             req |-> "none"]

Init ==
    /\ now = 0
    /\ sessions = <<>>
    /\ orders = <<>>
    /\ nextToken = 1
    /\ calls = [w \in Workers |-> IdleCall]
    /\ origin = <<>>
    /\ issued = <<>>

\* ------------------------------------------------------------- clock
\* d ticks pass between two requests or two steps of a request
AdvanceClock(d) ==
    /\ now' = now + d
    /\ UNCHANGED <<sessions, orders, nextToken, calls, origin, issued>>

\* ------------------------------------------------------- 2FA provider
\* A pinId is an opaque string, new at every send_pin: within one session
\* the k-th PIN sent is written k; a response without pinId gives None.
NoPinId == 0
FirstPin == 1
FreshPin(old) == old + 1

\* Infobip2FAClient.send_pin: the HTTP call raises (status >= 400 or
\* transport error), or returns a body with a pinId, or one without.
SendPinOutcomes == {"pin", "nopin", "error"}

\* Infobip2FAClient.verify_pin: the HTTP call raises, or returns
\* {verified: true}, or {verified: false, attemptsRemaining: r}.
VerifyPinOutcomes ==
    {[kind |-> "error", remaining |-> 0], [kind |-> "verified", remaining |-> 0]}
    \cup {[kind |-> "rejected", remaining |-> r] : r \in 0..MaxRemaining}

\* ------------------------------------------------------------ requests
Free(w) == calls[w].pc \in {"idle", "done"}

\* The response is sent and what the request held in memory is dropped
Finish(w, st) == [calls EXCEPT ![w].pc = "done", ![w].status = st,
                               ![w].snap = <<>>, ![w].req = "none"]

\* ------------------------------------------------------------ initiate
\* main.py:248-251  rows of this phone created inside the trailing hour
recent_sessions(p) ==
    Cardinality({t \in DOMAIN sessions :
                    /\ sessions[t].phone_number = p
                    /\ sessions[t].created_at > now - RateWindow})

\* main.py:242-260  POST /orders/initiate: the count of the phone's recent
\* rows, the 429 at the limit, and the total of the request, which the
\* handler keeps while it waits for the provider
initiate_order(w, p, order) ==
    /\ Free(w)
    /\ LET c == [IdleCall EXCEPT !.op = "initiate"] IN
       calls' = [calls EXCEPT ![w] =
          IF recent_sessions(p) >= RateLimit
          THEN [c EXCEPT !.pc = "done", !.status = HTTP_429]
          ELSE [c EXCEPT !.pc = "send",
                         !.snap = [phone_number |-> p, order |-> order,
                                   total_amount |-> SumBooks(order.books)]]]
    /\ UNCHANGED <<now, sessions, orders, nextToken, origin, issued>>

\* NewSession that lives for the rate-limit window instead of ten minutes
NewSession_LivesAnHour(p, order, total_amount) ==
    [ session_token |-> nextToken,
      phone_number  |-> p,
      pin_id        |-> FirstPin,
      attempts      |-> 0,
      verified      |-> FALSE,
      expires_at    |-> now + RateWindow,
      created_at    |-> now,
      order_data    |-> [phone_number |-> p,
                         address |-> order.address,
                         payment_method |-> order.payment_method,
                         books |-> order.books,
                         total_amount |-> total_amount] ]

\* main.py:278-292  the VerificationSession row: a token never issued
\* before, the pinId just sent, the column defaults attempts = 0 and
\* verified = False, and the order intent kept as order_data
NewSession(p, order, total_amount) ==
    [ session_token |-> nextToken,
      phone_number  |-> p,
      pin_id        |-> FirstPin,
      attempts      |-> 0,
      verified      |-> FALSE,
      expires_at    |-> now + SessionTTL,
      created_at    |-> now,
      order_data    |-> [phone_number |-> p,
                         address |-> order.address,
                         payment_method |-> order.payment_method,
                         books |-> order.books,
                         total_amount |-> total_amount] ]

\* HasPinId that accepts every response body, with or without a pinId
HasPinId_AnyBody(sms) == sms # "error"

\* main.py:262-276  send_pin returned and its body carries a pinId
HasPinId(sms) == sms = "pin"

\* main.py:262-302  the provider has answered: a 503 and nothing written, or
\* the session row is inserted, whatever was inserted since the count
InitiateSend(w, sms) ==
    LET r == calls[w].snap IN
    /\ calls[w].op = "initiate" /\ calls[w].pc = "send"
    /\ UNCHANGED <<now, orders, origin>>
    /\ IF ~HasPinId(sms)
       THEN /\ calls' = Finish(w, HTTP_503)
            /\ UNCHANGED <<sessions, nextToken, issued>>
       ELSE /\ sessions' = sessions @@
                  (nextToken :> NewSession(r.phone_number, r.order,
                                           r.total_amount))
            /\ nextToken' = nextToken + 1
            /\ issued' = Append(issued, [phone_number |-> r.phone_number,
                                         created_at |-> now,
                                         order |-> r.order,
                                         total_amount |-> r.total_amount])
            /\ calls' = Finish(w, HTTP_202)

\* -------------------------------------------------------------- verify
\* main.py:312-328  POST /orders/verify: session lookup
ConfirmLookup(w, t) ==
    /\ Free(w)
    /\ LET c == [IdleCall EXCEPT !.op = "confirm", !.token = t] IN
       calls' = [calls EXCEPT ![w] =
          IF ~LiveRow(t) THEN [c EXCEPT !.pc = "done", !.status = HTTP_401]
          ELSE IF sessions[t].verified
               THEN [c EXCEPT !.pc = "done", !.status = HTTP_400]
          ELSE [c EXCEPT !.pc = "verify", !.snap = sessions[t]]]
    /\ UNCHANGED <<now, sessions, orders, nextToken, origin, issued>>

\* NewOrder that leaves order_status and verified to the column defaults
NewOrder_ColumnDefaults(od) ==
    [ id             |-> Len(orders) + 1,
      phone_number   |-> od.phone_number,
      address        |-> od.address,
      payment_method |-> od.payment_method,
      book_list      |-> od.books,
      total_amount   |-> int(od.total_amount),
      payment_status |-> "pending",
      order_status   |-> "pending",
      verified       |-> FALSE,
      created_at     |-> now,
      updated_at     |-> now ]

\* main.py:365-373  the Order row built from the session's order_data
NewOrder(od) ==
    [ id             |-> Len(orders) + 1,
      phone_number   |-> od.phone_number,
      address        |-> od.address,
      payment_method |-> od.payment_method,
      book_list      |-> od.books,
      total_amount   |-> int(od.total_amount),
      payment_status |-> "pending",
      order_status   |-> "verified",
      verified       |-> TRUE,
      created_at     |-> now,
      updated_at     |-> now ]

\* The provider answered request w: its answer is recorded, the request
\* moves to pc (with response st once done); a commit or the end of the
\* request drops the loaded ORM object.
Answered(w, out, pc, st) ==
    [calls EXCEPT ![w].res = out.kind, ![w].remaining = out.remaining,
                  ![w].snap = <<>>, ![w].pc = pc, ![w].status = st]

\* ConfirmError that counts the failed provider call as a rejected attempt
ConfirmError_CountsAttempt(w, out) ==
    /\ calls' = Answered(w, out, "done", HTTP_503)
    /\ sessions' = [sessions EXCEPT
                       ![calls[w].token].attempts = calls[w].snap.attempts + 1]
    /\ UNCHANGED <<orders, origin>>

\* main.py:185-189, 353-357  verify_pin raised: a 503, nothing written
ConfirmError(w, out) ==
    /\ calls' = Answered(w, out, "done", HTTP_503)
    /\ UNCHANGED <<sessions, orders, origin>>

\* main.py:334-336  verified is false: session.attempts += 1; db.commit().
\* The UPDATE writes the value computed from the loaded object.  If another
\* request has deleted the row it matches no row and the flush raises
\* StaleDataError, which line 353 turns into a 503.
ConfirmRejected(w, out) ==
    LET c == calls[w]
        t == c.token
    IN
    /\ UNCHANGED <<orders, origin>>
    /\ IF Stored(t)
       THEN /\ sessions' = [sessions EXCEPT
                               ![t].attempts = c.snap.attempts + 1]
            /\ calls' = IF out.remaining = 0
                        THEN Answered(w, out, "exhausted", 0)
                        ELSE Answered(w, out, "done", HTTP_400)
       ELSE /\ calls' = Answered(w, out, "done", HTTP_503)
            /\ UNCHANGED sessions

\* ConfirmVerified that commits the verified flag before the Order is built
\* and then fails to build it
ConfirmVerified_FlagCommittedFirst(w, out) ==
    /\ sessions' = IF Stored(calls[w].token)
                   THEN [sessions EXCEPT ![calls[w].token].verified = TRUE]
                   ELSE sessions
    /\ calls' = Answered(w, out, "done", HTTP_500)
    /\ UNCHANGED <<orders, origin>>

\* main.py:359-376  verified: session.verified = True, the Order is added,
\* one commit for both.  The StaleDataError of an UPDATE on a deleted row
\* is unhandled here: the transaction rolls back and the answer is a 500.
ConfirmVerified(w, out) ==
    LET c == calls[w]
        t == c.token
    IN
    IF Stored(t)
    THEN /\ sessions' = [sessions EXCEPT ![t].verified = TRUE]
         /\ orders' = Append(orders, NewOrder(c.snap.order_data))
         /\ origin' = Append(origin,
                         [token |-> t, at |-> now,
                          expires_at |-> sessions[t].expires_at])
         /\ calls' = [Answered(w, out, "cleanup", 0) EXCEPT
                         ![w].order = Len(orders) + 1]
    ELSE /\ calls' = Answered(w, out, "done", HTTP_500)
         /\ UNCHANGED <<sessions, orders, origin>>

\* main.py:330-376  provider call and the commit that follows it
ConfirmVerify(w, out) ==
    /\ calls[w].op = "confirm" /\ calls[w].pc = "verify"
    /\ UNCHANGED <<now, nextToken, issued>>
    /\ CASE out.kind = "error"    -> ConfirmError(w, out)
         [] out.kind = "rejected" -> ConfirmRejected(w, out)
         [] out.kind = "verified" -> ConfirmVerified(w, out)

\* main.py:339-340  attemptsRemaining == 0: db.delete(session); db.commit().
\* The object was expired by the commit on line 336, so the flush first
\* reloads it with a SELECT: ObjectDeletedError (caught on line 353, a 503)
\* if the row is gone by then.
ConfirmExhausted(w) ==
    /\ calls[w].op = "confirm" /\ calls[w].pc = "exhausted"
    /\ calls' = IF Stored(calls[w].token)
                THEN [calls EXCEPT ![w].pc = "exhausted_delete"]
                ELSE Finish(w, HTTP_503)
    /\ UNCHANGED <<now, sessions, orders, nextToken, origin, issued>>

\* ConfirmExhaustedDelete that answers 403 but leaves the session row stored
ConfirmExhaustedDelete_KeepRow(w) ==
    /\ calls[w].op = "confirm" /\ calls[w].pc = "exhausted_delete"
    /\ calls' = Finish(w, HTTP_403)
    /\ UNCHANGED <<now, sessions, orders, nextToken, origin, issued>>

\* main.py:340-345  the DELETE of that flush and the 403; a row deleted by
\* another request since the reload changes nothing of this
ConfirmExhaustedDelete(w) ==
    /\ calls[w].op = "confirm" /\ calls[w].pc = "exhausted_delete"
    /\ sessions' = DeleteRow(calls[w].token)
    /\ calls' = Finish(w, HTTP_403)
    /\ UNCHANGED <<now, orders, nextToken, origin, issued>>

\* main.py:377-381  "Clean up session": db.delete(session); db.commit().
\* The commit on line 376 expired the object, so the flush reloads it with
\* a SELECT first.  This is outside the try block: ObjectDeletedError is an
\* unhandled 500.
ConfirmCleanup(w) ==
    /\ calls[w].op = "confirm" /\ calls[w].pc = "cleanup"
    /\ calls' = IF Stored(calls[w].token)
                THEN [calls EXCEPT ![w].pc = "cleanup_delete"]
                ELSE Finish(w, HTTP_500)
    /\ UNCHANGED <<now, sessions, orders, nextToken, origin, issued>>

\* main.py:381-395  the DELETE of that flush, then the order is returned; a
\* row deleted by another request since the reload changes nothing of this
ConfirmCleanupDelete(w) ==
    /\ calls[w].op = "confirm" /\ calls[w].pc = "cleanup_delete"
    /\ sessions' = DeleteRow(calls[w].token)
    /\ calls' = Finish(w, HTTP_200)
    /\ UNCHANGED <<now, orders, nextToken, origin, issued>>

\* --------------------------------------------------------- resend-code
\* ResendLookup that applies the per-phone limit of initiate
ResendLookup_RateLimited(w, t) ==
    /\ Free(w)
    /\ LET c == [IdleCall EXCEPT !.op = "resend", !.token = t] IN
       calls' = [calls EXCEPT ![w] =
          IF ~LiveRow(t) THEN [c EXCEPT !.pc = "done", !.status = HTTP_404]
          ELSE IF sessions[t].verified
               THEN [c EXCEPT !.pc = "done", !.status = HTTP_400]
          ELSE IF recent_sessions(sessions[t].phone_number) >= RateLimit
               THEN [c EXCEPT !.pc = "done", !.status = HTTP_429]
          ELSE [c EXCEPT !.pc = "send", !.snap = sessions[t]]]
    /\ UNCHANGED <<now, sessions, orders, nextToken, origin, issued>>

\* main.py:405-420  POST /orders/resend-code: session lookup
ResendLookup(w, t) ==
    /\ Free(w)
    /\ LET c == [IdleCall EXCEPT !.op = "resend", !.token = t] IN
       calls' = [calls EXCEPT ![w] =
          IF ~LiveRow(t) THEN [c EXCEPT !.pc = "done", !.status = HTTP_404]
          ELSE IF sessions[t].verified
               THEN [c EXCEPT !.pc = "done", !.status = HTTP_400]
          ELSE [c EXCEPT !.pc = "send", !.snap = sessions[t]]]
    /\ UNCHANGED <<now, sessions, orders, nextToken, origin, issued>>

\* The pin_id column with NULL allowed
PinIdNotNull_Nullable(sms) == TRUE

\* main.py:66  pin_id = Column(String, nullable=False): the UPDATE that
\* stores sms_result.get("pinId") = None raises IntegrityError
PinIdNotNull(sms) == sms # "nopin"

\* main.py:422-438  send a new PIN and commit the session update.  Every
\* exception (provider error, NOT NULL violation of pin_id = None,
\* StaleDataError on a deleted row) is turned into a 503.  attempts = 0 and
\* the new expires_at reach the row only where they differ from what the
\* lookup of this request loaded.
ResendSend(w, sms) ==
    LET c == calls[w]
        t == c.token
    IN
    /\ c.op = "resend" /\ c.pc = "send"
    /\ UNCHANGED <<now, orders, nextToken, origin, issued>>
    /\ IF sms = "error" \/ ~PinIdNotNull(sms) \/ ~Stored(t)
       THEN /\ calls' = Finish(w, HTTP_503)
            /\ UNCHANGED sessions
       ELSE /\ sessions' = [sessions EXCEPT
                               ![t].pin_id = IF sms = "pin"
                                             THEN FreshPin(sessions[t].pin_id)
                                             ELSE NoPinId,
                               ![t].attempts =
                                   Flushed(c.snap.attempts, 0, @),
                               ![t].expires_at =
                                   Flushed(c.snap.expires_at,
                                           now + SessionTTL, @)]
            /\ calls' = Finish(w, HTTP_200)

\* ------------------------------------------------------ order mutation
\* get_current_session without the expires_at filter
get_current_session_AnyStored(token) == Stored(token)

\* get_current_session that also wants the session verified
get_current_session_VerifiedOnly(token) ==
    LiveRow(token) /\ sessions[token].verified

\* main.py:213-216  the bearer token must name a stored, unexpired session
get_current_session(token) == LiveRow(token)

\* main.py:207-224  the dependency of both mutating endpoints (op says
\* which one was called): a 401, or the session object is handed to the
\* handler, which reads its phone_number
Authenticate(w, op, token) ==
    /\ Free(w)
    /\ LET c == [IdleCall EXCEPT !.op = op, !.token = token] IN
       calls' = [calls EXCEPT ![w] =
          IF ~get_current_session(token)
          THEN [c EXCEPT !.pc = "done", !.status = HTTP_401]
          ELSE [c EXCEPT !.pc = "body",
                         !.snap = [phone_number |->
                                      sessions[token].phone_number]]]
    /\ UNCHANGED <<now, sessions, orders, nextToken, origin, issued>>

\* main.py:509-512 / 551-554  Order.id == order_id AND
\* Order.phone_number == session.phone_number
FindOrder(order_id, session) ==
    /\ order_id \in DOMAIN orders
    /\ orders[order_id].phone_number = session.phone_number

\* main.py:524-530  valid_transitions.get(current_status, [])
valid_transitions(current) ==
    CASE current = "verified"   -> {"processing", "cancelled"}
      [] current = "processing" -> {"shipped", "cancelled"}
      [] current = "shipped"    -> {"delivered"}
      [] OTHER                  -> {}

\* main.py:530  the transition check of update_order_status
StatusAllowed(current, status) == status \in valid_transitions(current)

\* main.py:562  the check of cancel_order
CancelAllowed(current) == current \notin {"shipped", "delivered"}

\* The handler goes on to write status on the order it has loaded
Accepted(w, order_id, status) ==
    [calls EXCEPT ![w].pc = "write", ![w].order = order_id, ![w].req = status,
                  ![w].snap = [order_status |-> orders[order_id].order_status]]

\* main.py:499-534  PUT /orders/{order_id}/status, the handler body up to
\* its checks.  The parameter named status (line 502) hides fastapi's status
\* module, so status.HTTP_404_NOT_FOUND (line 516) and
\* status.HTTP_400_BAD_REQUEST (line 532) raise AttributeError: both
\* refusals leave the handler as an unhandled exception, a 500.
update_order_status(w, order_id, status) ==
    /\ calls[w].op = "status" /\ calls[w].pc = "body"
    /\ calls' = IF ~FindOrder(order_id, calls[w].snap)
                THEN Finish(w, HTTP_500)
                ELSE IF ~StatusAllowed(orders[order_id].order_status, status)
                THEN Finish(w, HTTP_500)
                ELSE Accepted(w, order_id, status)
    /\ UNCHANGED <<now, sessions, orders, nextToken, origin, issued>>

\* main.py:542-566  DELETE /orders/{order_id}, the handler body up to its
\* checks
cancel_order(w, order_id) ==
    /\ calls[w].op = "cancel" /\ calls[w].pc = "body"
    /\ calls' = IF ~FindOrder(order_id, calls[w].snap)
                THEN Finish(w, HTTP_404)
                ELSE IF ~CancelAllowed(orders[order_id].order_status)
                THEN Finish(w, HTTP_400)
                ELSE Accepted(w, order_id, "cancelled")
    /\ UNCHANGED <<now, sessions, orders, nextToken, origin, issued>>

\* SetStatus that writes the row anew, creation time included
SetStatus_Recreates(order_id, status, loaded) ==
    [orders EXCEPT ![order_id].order_status = status,
                   ![order_id].created_at = now,
                   ![order_id].updated_at = now]

\* main.py:536-538, 568-570  order.order_status = ...; order.updated_at =
\* datetime.utcnow(); db.commit(): the UPDATE names the row by its id and
\* sets updated_at, and order_status where it differs from the loaded one
SetStatus(order_id, status, loaded) ==
    [orders EXCEPT ![order_id].order_status =
                       Flushed(loaded.order_status, status, @),
                   ![order_id].updated_at = now]

\* main.py:536-540, 568-572  the commit of either handler and its 200,
\* whatever was committed to the order since this request read it
CommitStatus(w) ==
    /\ calls[w].op \in {"status", "cancel"} /\ calls[w].pc = "write"
    /\ orders' = SetStatus(calls[w].order, calls[w].req, calls[w].snap)
    /\ calls' = Finish(w, HTTP_200)
    /\ UNCHANGED <<now, sessions, nextToken, origin, issued>>

\* ------------------------------------------------------- specification
\* Tokens a client can present: the never-issued one and every issued one
Presentable == 0 .. (nextToken - 1)

\* Order ids a client can name: every existing one and one that is not
OrderIds == 1 .. (Len(orders) + 1)

\* The bounds on the provider's answers and on the tables
VerifyBound(w, out, cap) ==
    /\ calls[w].pc = "verify"
    /\ out.kind = "rejected" => calls[w].snap.attempts < MaxAttempts
    /\ out.kind = "verified" => Len(orders) < cap

ResendBound(w, sms) ==
    ( sms = "pin" /\ Stored(calls[w].token) )
       => sessions[calls[w].token].pin_id < MaxPins

\* Initiate requests past their count, waiting for the provider
Sending == {w \in Workers : calls[w].op = "initiate" /\ calls[w].pc = "send"}

\* An initiate request of worker w: for a phone of P, until cap sessions
\* are created or under way, with the provider answering as in S
InitiateBy(w, P, S, cap) ==
    \/ /\ nextToken + Cardinality(Sending) <= cap
       /\ \E p \in P, order \in Intents : initiate_order(w, p, order)
    \/ \E sms \in S : InitiateSend(w, sms)

Tick == now < MaxTime /\ AdvanceClock(1)

Initiate == InitiateBy(2, {1}, SendPinOutcomes, MaxTokens)

Confirm(w) ==
    \/ \E t \in Presentable : ConfirmLookup(w, t)
    \/ \E out \in VerifyPinOutcomes :
          VerifyBound(w, out, MaxOrders) /\ ConfirmVerify(w, out)
    \/ ConfirmExhausted(w)
    \/ ConfirmExhaustedDelete(w)
    \/ ConfirmCleanup(w)
    \/ ConfirmCleanupDelete(w)

Resend(w) ==
    \/ \E t \in Presentable : ResendLookup(w, t)
    \/ \E sms \in SendPinOutcomes : ResendBound(w, sms) /\ ResendSend(w, sms)

\* A status-update request of worker w with a token of T, an order id of I
\* and a status of S
StatusUpdateBy(w, T, I, S) ==
    \/ \E t \in T : Authenticate(w, "status", t)
    \/ \E id \in I, st \in S : update_order_status(w, id, st)
    \/ calls[w].op = "status" /\ CommitStatus(w)

\* A cancel request of worker w with a token of T and an order id of I
CancelBy(w, T, I) ==
    \/ \E t \in T : Authenticate(w, "cancel", t)
    \/ \E id \in I : cancel_order(w, id)
    \/ calls[w].op = "cancel" /\ CommitStatus(w)

SetOrderStatus(w) == StatusUpdateBy(w, Presentable, OrderIds, OrderStatus)

CancelOrder(w) == CancelBy(w, Presentable, OrderIds)

\* The session lifecycle: verify and resend-code requests follow one
\* another on one worker; initiate requests on the other worker and the
\* clock interleave with their steps.
Next == Tick \/ Initiate \/ Confirm(1) \/ Resend(1)

Spec == Init /\ [][Next]_vars

\* The order state machine: orders are placed by verify requests on live
\* sessions whose PIN the provider accepts, then mutated.
Place(w, cap) ==
    \/ \E t \in Presentable : LiveRow(t) /\ ConfirmLookup(w, t)
    \/ \E out \in {o \in VerifyPinOutcomes : o.kind = "verified"} :
          VerifyBound(w, out, cap) /\ ConfirmVerify(w, out)
    \/ ConfirmCleanup(w)
    \/ ConfirmCleanupDelete(w)

OrderTick == now < OrderMaxTime /\ AdvanceClock(1)

OrderInitiate == InitiateBy(1, Phones, {"pin"}, OrderTokens)

\* The status updates requested here: one forward step and the cancellation
OrderSetStatus ==
    StatusUpdateBy(2, Presentable, OrderIds, {"processing", "cancelled"})

\* Sessions are created and verified into orders on one worker, orders are
\* updated and cancelled on the other, while the clock runs.
NextOrders == OrderTick \/ OrderInitiate \/ Place(1, OrderCap) \/ OrderSetStatus
                        \/ CancelOrder(2)

SpecOrders == Init /\ [][NextOrders]_vars

\* The transition table: one phone, no clock, every session live; status
\* updates and cancellations overlap on the two workers.
TableInitiate == InitiateBy(1, {1}, {"pin"}, TableTokens)

NextTable == TableInitiate \/ Place(1, TableCap)
                \/ (\E w \in Workers : SetOrderStatus(w))
                \/ (\E w \in Workers : CancelOrder(w))

SpecTable == Init /\ [][NextTable]_vars

\* The orders table under every handler that writes: sessions are created,
\* re-sent, verified into orders, and used to update and cancel them
\* while the clock runs.
FrameTick == now < FrameMaxTime /\ AdvanceClock(1)

FrameInitiate == InitiateBy(1, {1}, {"pin"}, FrameTokens)

\* Status updates and cancellations of stored orders with stored tokens
FrameSetStatus ==
    StatusUpdateBy(2, DOMAIN sessions, DOMAIN orders, {"processing"})

FrameCancel == CancelBy(2, DOMAIN sessions, DOMAIN orders)

\* Resend-code requests whose PIN the provider sends
FrameResend ==
    \/ \E t \in DOMAIN sessions : ResendLookup(1, t)
    \/ ResendBound(1, "pin") /\ ResendSend(1, "pin")

NextFrame == FrameTick \/ FrameInitiate \/ Place(1, FrameCap) \/ FrameResend
                       \/ FrameSetStatus \/ FrameCancel

SpecFrame == Init /\ [][NextFrame]_vars

\* One order from its intent to its record: an initiate request with any
\* list of books, then the verify request with the code the provider accepts.
TotalInitiate ==
    \/ /\ nextToken = 1
       /\ calls[1].op = "none"
       /\ \E books \in BookLists :
             initiate_order(1, 1, Intent("12 Lake Road", "bkash", books))
    \/ InitiateSend(1, "pin")

NextTotal == TotalInitiate \/ Place(1, 1)

SpecTotal == Init /\ [][NextTotal]_vars

\* Resending: one phone creates sessions up to the rate limit and asks
\* again and again for a new PIN on the first of them.
FirstToken == 1

ResendClock == now < ResendMaxTime /\ AdvanceClock(1)

ResendInitiate == InitiateBy(2, {1}, {"pin"}, ResendTokens)

ResendAgain ==
    \/ FirstToken \in Presentable /\ ResendLookup(1, FirstToken)
    \/ \E sms \in SendPinOutcomes :
          /\ ( sms = "pin" /\ Stored(calls[1].token) )
                => sessions[calls[1].token].pin_id < ResendPins
          /\ ResendSend(1, sms)

NextResend == ResendClock \/ ResendInitiate \/ ResendAgain

SpecResend == Init /\ [][NextResend]_vars

\* Two request workers, one phone and one stored session at a time: verify
\* and resend-code requests overlap in every order of their steps.
RaceInitiate == /\ sessions = <<>>
                /\ InitiateBy(1, {1}, SendPinOutcomes, RaceTokens)

NextRace == Tick \/ RaceInitiate \/ (\E w \in Workers : Confirm(w))
                 \/ (\E w \in Workers : Resend(w))

SpecRace == Init /\ [][NextRace]_vars

\* The rate limit: one phone, enough sessions to reach the limit, a clock
\* that jumps by the one-hour window; initiate requests overlap on the two
\* workers; sessions end by a verify request that the provider accepts, or
\* rejects with no attempts remaining.
RateTick == now + RateWindow <= RateMaxTime /\ AdvanceClock(RateWindow)

RateInitiate(w) == InitiateBy(w, {1}, {"pin"}, RateTokens)

RateConfirm(w) ==
    \/ \E t \in Presentable : LiveRow(t) /\ ConfirmLookup(w, t)
    \/ \E out \in {o \in VerifyPinOutcomes :
                      o.kind \in {"verified", "rejected"} /\ o.remaining = 0} :
          VerifyBound(w, out, MaxOrders) /\ ConfirmVerify(w, out)
    \/ ConfirmExhausted(w)
    \/ ConfirmExhaustedDelete(w)
    \/ ConfirmCleanup(w)
    \/ ConfirmCleanupDelete(w)

NextRate == RateTick \/ (\E w \in Workers : RateInitiate(w)) \/ RateConfirm(1)

SpecRate == Init /\ [][NextRate]_vars

\* =============================================================== claims
Issued == 1 .. (nextToken - 1)

\* Orders materialized from the session of token t
OrdersFrom(t) == {i \in DOMAIN origin : origin[i].token = t}

\* The error kinds of the interface, as the handlers' HTTP responses
SessionInvalid(c) == c.status = IF c.op = "resend" THEN HTTP_404 ELSE HTTP_401
AlreadyConsumed(c) == c.status = HTTP_400 /\ c.res = "none"
InvalidCode(c) == c.status = HTTP_400 /\ c.res = "rejected"
AttemptsExhausted(c) == c.status = HTTP_403
ProviderUnavailable(c) == c.status = HTTP_503
Returned(c) == c.pc = "done"

\* The bearer token names a stored session, not yet expired, of the phone
\* number of order id
TokenValidFor(t, id) ==
    /\ t \in DOMAIN sessions
    /\ now < sessions[t].expires_at
    /\ sessions[t].phone_number = orders[id].phone_number

\* C1: two verify requests that race on one live, unverified session (both
\* looked it up, the provider accepted both codes): exactly one succeeds, the
\* other gets SessionInvalid or AlreadyConsumed, and one Order is created
\* from the session.
C1_RacingConfirmsCreateOneOrder ==
    /\ \A t \in Issued : Cardinality(OrdersFrom(t)) <= 1
    /\ ( /\ \A w \in Workers : /\ Returned(calls[w])
                               /\ calls[w].op = "confirm"
                               /\ calls[w].res = "verified"
         /\ calls[1].token = calls[2].token )
       => /\ \E w \in Workers : calls[w].status = HTTP_200
          /\ \E w \in Workers : SessionInvalid(calls[w]) \/ AlreadyConsumed(calls[w])
          /\ Cardinality(OrdersFrom(calls[1].token)) = 1

\* C2: a verify request on a token whose session an earlier verify request
\* has already turned into an order fails with AlreadyConsumed (400), and
\* one Order exists for the session.
C2_SecondConfirmAlreadyConsumed ==
    LET c == calls[1] IN
    ( /\ Returned(c) /\ c.op = "confirm"
      /\ OrdersFrom(c.token) # {}
      /\ c.order = 0 )
    => /\ AlreadyConsumed(c)
       /\ Cardinality(OrdersFrom(c.token)) = 1

\* The second verify request on a consumed token is refused and no second
\* order is created (the part of C2 that the code keeps).
C2_SecondConfirmRefused ==
    LET c == calls[1] IN
    ( /\ Returned(c) /\ c.op = "confirm"
      /\ OrdersFrom(c.token) # {}
      /\ c.order = 0 )
    => /\ SessionInvalid(c)
       /\ Cardinality(OrdersFrom(c.token)) = 1

\* C3: every Order comes from a verify request whose PIN the provider
\* accepted; a request that ends in an error creates no Order; a session
\* that died (passed expires_at, or attempts exhausted) yields no Order.
C3_OrderOnlyOnVerification ==
    /\ \A w \in Workers :
          LET c == calls[w] IN
          /\ c.order # 0 => c.res = "verified"
          /\ ( Returned(c) /\ ( SessionInvalid(c) \/ c.status = HTTP_400
                                \/ AttemptsExhausted(c) \/ ProviderUnavailable(c) ) )
             => c.order = 0
          /\ ( Returned(c) /\ AttemptsExhausted(c) ) => OrdersFrom(c.token) = {}
    /\ \A i \in DOMAIN origin : origin[i].at < origin[i].expires_at

\* The part of C3 that does not depend on the clock: orders come only from
\* accepted PINs, never from a request that ends in an error.
C3_NoOrderOnError ==
    \A w \in Workers :
       LET c == calls[w] IN
       /\ c.order # 0 => c.res = "verified"
       /\ ( Returned(c) /\ ( SessionInvalid(c) \/ c.status = HTTP_400
                             \/ AttemptsExhausted(c) \/ ProviderUnavailable(c) ) )
          => c.order = 0
       /\ ( Returned(c) /\ AttemptsExhausted(c) ) => OrdersFrom(c.token) = {}

\* C4: no session is created for a phone number for which five sessions
\* were already created inside the trailing one-hour window, whatever
\* became of those five.
C4_SixthInitiateRateLimited ==
    \A t \in DOMAIN issued :
       Cardinality({u \in 1 .. (t - 1) :
                       /\ issued[u].phone_number = issued[t].phone_number
                       /\ issued[u].created_at > issued[t].created_at - RateWindow})
          < RateLimit

OrderChanged(id) ==
    \/ orders'[id].order_status # orders[id].order_status
    \/ orders'[id].updated_at # orders[id].updated_at

\* C5: an order's status or updated_at changes only in the commit of a
\* status-update or cancel request on that order; such a request reaches its
\* commit only from its handler body, with a session of the order's phone
\* number; and a request reaches its handler body only if, when it was
\* made, its bearer token named a stored session with now < expires_at,
\* whose phone number the handler then uses.
C5_MutationNeedsLiveMatchingToken ==
    [][ /\ \A id \in DOMAIN orders :
              OrderChanged(id) =>
                 \E w \in Workers : /\ calls[w].op \in {"status", "cancel"}
                                    /\ calls[w].pc = "write"
                                    /\ calls[w].order = id
                                    /\ calls'[w].pc = "done"
        /\ \A w \in Workers :
              ( calls'[w].pc = "write" /\ calls[w].pc # "write" ) =>
                 /\ calls[w].pc = "body"
                 /\ calls'[w].order \in DOMAIN orders
                 /\ orders[calls'[w].order].phone_number
                       = calls[w].snap.phone_number
        /\ \A w \in Workers :
              ( calls'[w].pc = "body" /\ calls[w].pc # "body" ) =>
                 LET t == calls'[w].token IN
                 /\ t \in DOMAIN sessions
                 /\ now < sessions[t].expires_at
                 /\ calls'[w].snap.phone_number = sessions[t].phone_number
      ]_vars

\* C5 witness: an authorized request has changed an order, while a stored
\* token of the same phone has expired
C5_Witness ==
    \E w \in Workers :
       /\ calls[w].op \in {"status", "cancel"}
       /\ Returned(calls[w]) /\ calls[w].status = HTTP_200
       /\ orders[calls[w].order].order_status = "processing"
       /\ \E t \in DOMAIN sessions :
             /\ sessions[t].expires_at <= now
             /\ sessions[t].phone_number
                   = orders[calls[w].order].phone_number

\* C6: once the verify request that created order i has returned, and until
\* the session's expires_at, the same token authorizes mutations of order i.
C6_TokenUsableAfterConfirm ==
    \A i \in DOMAIN orders :
       ( /\ \A w \in Workers : ~( /\ calls[w].op = "confirm"
                                    /\ calls[w].pc # "done"
                                    /\ calls[w].order = i )
         /\ now < origin[i].expires_at )
       => /\ get_current_session(origin[i].token)
          /\ FindOrder(i, sessions[origin[i].token])

\* C6 (what the code does instead): once the verify request that created
\* order i has returned, its token no longer names any session.
C6_TokenGoneAfterConfirm ==
    \A i \in DOMAIN orders :
       (\A w \in Workers : ~( /\ calls[w].op = "confirm"
                                /\ calls[w].pc # "done"
                                /\ calls[w].order = i ))
       => ~get_current_session(origin[i].token)

\* The session of token t was deleted without having produced an order:
\* the only such deletion is the one after attemptsRemaining = 0.
ExhaustedToken(t) == t \in Issued /\ ~Stored(t) /\ OrdersFrom(t) = {}

\* C7: when the provider rejects the code, the stored attempts grow by one;
\* with attemptsRemaining = 0 the session is then deleted and the request
\* answers AttemptsExhausted, otherwise the session stays stored and the
\* request answers InvalidCode with that attemptsRemaining.  Every verify
\* request on the token after an AttemptsExhausted answers SessionInvalid
\* without reaching the provider.
C7_RejectedCodeBookkeeping ==
    [][ LET c == calls[1]
            d == calls'[1]
            t == c.token
        IN
        /\ ( c.pc = "verify" /\ d.res = "rejected" ) =>
              /\ t \in DOMAIN sessions'
              /\ sessions'[t].attempts = sessions[t].attempts + 1
              /\ IF d.remaining = 0
                 THEN d.pc = "exhausted"
                 ELSE Returned(d) /\ InvalidCode(d) /\ d.remaining > 0
        /\ ( c.pc = "exhausted" /\ d # c ) =>
              /\ d.pc = "exhausted_delete"
              /\ sessions' = sessions
        /\ ( c.pc = "exhausted_delete" /\ d # c ) =>
              /\ t \notin DOMAIN sessions'
              /\ Returned(d) /\ AttemptsExhausted(d)
        /\ ( /\ Returned(d) /\ d.op = "confirm" /\ ~AttemptsExhausted(d)
             /\ d.token \in Issued /\ d.token \notin DOMAIN sessions'
             /\ OrdersFrom(d.token) = {} /\ origin' = origin ) =>
              /\ SessionInvalid(d) /\ d.res = "none"
      ]_vars

\* C7 witness: a verify request on a token whose attempts were exhausted
\* has been answered, and another session holds a counted rejected attempt
C7_Witness ==
    /\ Returned(calls[1]) /\ calls[1].op = "confirm"
    /\ ExhaustedToken(calls[1].token)
    /\ SessionInvalid(calls[1])
    /\ \E t \in DOMAIN sessions : sessions[t].attempts > 0

\* Token t was never issued, or its stored session has passed expires_at
DeadToken(t) ==
    \/ t \notin Issued
    \/ t \in DOMAIN sessions /\ sessions[t].expires_at <= now

\* C8: a verify or resend-code request that starts on a never-issued token,
\* or on a stored session whose expires_at has passed, answers SessionInvalid
\* at once: no provider call, no order, no change to any stored session.
C8_DeadTokenSessionInvalid ==
    [][ \A w \in Workers :
           ( /\ Free(w) /\ calls'[w] # calls[w]
             /\ calls'[w].op \in {"confirm", "resend"}
             /\ DeadToken(calls'[w].token) ) =>
              /\ Returned(calls'[w]) /\ SessionInvalid(calls'[w])
              /\ calls'[w].res = "none"
              /\ sessions' = sessions /\ orders' = orders
      ]_vars

\* C8 witness: a verify request on a stored, expired session and a
\* resend-code request on a never-issued token have both been refused
C8_Witness ==
    \E w, v \in Workers :
       /\ Returned(calls[w]) /\ calls[w].op = "confirm"
       /\ calls[w].token \in DOMAIN sessions
       /\ sessions[calls[w].token].expires_at <= now
       /\ SessionInvalid(calls[w])
       /\ Returned(calls[v]) /\ calls[v].op = "resend"
       /\ calls[v].token = NoToken
       /\ SessionInvalid(calls[v])

\* Section 4.2 of the specification: current -> allowed next
TransitionTable ==
    { <<"verified", "processing">>, <<"verified", "cancelled">>,
      <<"processing", "shipped">>, <<"processing", "cancelled">>,
      <<"shipped", "delivered">> }

\* C9: a status update whose token was accepted, on an order of the token's
\* phone number, succeeds exactly for the pairs of the transition table and
\* then writes the requested status; any other pair answers
\* InvalidTransition (400) and leaves the order as it was.
C9_StatusUpdateFollowsTable ==
    [][ \A w \in Workers :
           /\ \A id \in DOMAIN orders, st \in OrderStatus :
                 ( /\ calls[w].op = "status" /\ calls[w].pc = "body"
                   /\ calls[w].snap.phone_number = orders[id].phone_number
                   /\ update_order_status(w, id, st) ) =>
                    IF <<orders[id].order_status, st>> \in TransitionTable
                    THEN /\ calls'[w].pc = "write"
                         /\ calls'[w].order = id /\ calls'[w].req = st
                    ELSE /\ Returned(calls'[w])
                         /\ calls'[w].status = HTTP_400
                         /\ orders' = orders
           /\ ( calls[w].op = "status" /\ calls[w].pc = "write"
                /\ calls'[w] # calls[w] ) =>
                 /\ calls'[w].status = HTTP_200
                 /\ orders'[calls[w].order].order_status = calls[w].req
      ]_vars

\* The part of C9 that the code keeps: the pairs of the table, and only
\* they, go on to the write; every other pair is refused and changes nothing
C9_OnlyTablePairsAccepted ==
    [][ \A w \in Workers, id \in DOMAIN orders, st \in OrderStatus :
           ( /\ calls[w].op = "status" /\ calls[w].pc = "body"
             /\ calls[w].snap.phone_number = orders[id].phone_number
             /\ update_order_status(w, id, st) ) =>
              IF <<orders[id].order_status, st>> \in TransitionTable
              THEN /\ calls'[w].pc = "write"
                   /\ calls'[w].order = id /\ calls'[w].req = st
              ELSE /\ Returned(calls'[w])
                   /\ calls'[w].status # HTTP_200
                   /\ orders' = orders
      ]_vars

\* C10: a cancel request whose token was accepted has the outcome of the
\* status update to cancelled on the same order: it goes on to write
\* cancelled where the table allows it, and otherwise fails and leaves the
\* order unchanged.
C10_CancelIsStatusUpdate ==
    [][ \A w \in Workers, id \in DOMAIN orders :
           ( /\ calls[w].op = "cancel" /\ calls[w].pc = "body"
             /\ calls[w].snap.phone_number = orders[id].phone_number
             /\ cancel_order(w, id) ) =>
              IF StatusAllowed(orders[id].order_status, "cancelled")
              THEN /\ calls'[w].pc = "write"
                   /\ calls'[w].order = id /\ calls'[w].req = "cancelled"
              ELSE /\ Returned(calls'[w])
                   /\ calls'[w].status # HTTP_200
                   /\ orders' = orders
      ]_vars

\* C11: creating the order and deleting its session are one transaction: in
\* no committed state does an Order exist while the session it was
\* materialized from is still stored.
C11_OrderAndDeletionCoupled ==
    \A i \in DOMAIN origin : ~Stored(origin[i].token)

\* C12: when the provider's verifyPin call itself fails, the verify request
\* answers ProviderUnavailable and creates no order, and the session is what
\* it was when the request looked it up: stored, not verified, the same
\* attempts, pin_id and expires_at.
C12_ProviderErrorLeavesSession ==
    [][ LET c == calls[1]
            d == calls'[1]
            t == c.token
        IN
        ( c.op = "confirm" /\ c.pc = "verify" /\ d.res = "error" ) =>
           /\ Returned(d) /\ ProviderUnavailable(d) /\ d.order = 0
           /\ orders' = orders /\ sessions' = sessions
           /\ t \in DOMAIN sessions'
           /\ sessions'[t] = c.snap
           /\ ~sessions'[t].verified
      ]_vars

\* C12 witness: a verify request has ended in the provider's failure on a
\* session that already counts a rejected attempt and is still stored
C12_Witness ==
    /\ Returned(calls[1]) /\ calls[1].op = "confirm"
    /\ calls[1].res = "error" /\ ProviderUnavailable(calls[1])
    /\ calls[1].token \in DOMAIN sessions
    /\ sessions[calls[1].token].attempts > 0

\* C13: an initiate request that is not rate limited and whose sendPin call
\* fails, or returns no pinId, answers ProviderUnavailable and writes
\* nothing: the stored sessions, the rate-limit count of every phone and
\* the orders are what they were.
C13_SendFailureCreatesNothing ==
    [][ \A w \in Workers, sms \in SendPinOutcomes \ {"pin"} :
           ( /\ calls[w].op = "initiate" /\ calls[w].pc = "send"
             /\ InitiateSend(w, sms) ) =>
              /\ Returned(calls'[w]) /\ ProviderUnavailable(calls'[w])
              /\ sessions' = sessions /\ orders' = orders
              /\ nextToken' = nextToken /\ issued' = issued
              /\ \A q \in Phones : recent_sessions(q)' = recent_sessions(q)
      ]_vars

\* C13 witness: an initiate request has answered ProviderUnavailable while
\* an earlier session of the same phone is stored
C13_Witness ==
    \E w \in Workers :
       /\ calls[w].op = "initiate" /\ Returned(calls[w])
       /\ ProviderUnavailable(calls[w])
       /\ \E t \in DOMAIN sessions : sessions[t].phone_number = 1
       /\ recent_sessions(1) = Cardinality(DOMAIN sessions)

\* C14: every stored Order has verified = TRUE and a status among verified,
\* processing, shipped, delivered, cancelled; an order is created in status
\* verified; no order is ever stored unverified or pending.
C14_OrdersVerifiedNeverPending ==
    [][ /\ \A id \in DOMAIN orders' :
              /\ orders'[id].verified
              /\ orders'[id].order_status \in OrderStatus \ {"pending"}
        /\ \A id \in (DOMAIN orders') \ (DOMAIN orders) :
              orders'[id].order_status = "verified"
      ]_vars

\* C14 witness: a status update was refused while an order that has been
\* cancelled is still stored as verified
C14_Witness ==
    /\ \E w \in Workers : /\ calls[w].op = "status" /\ Returned(calls[w])
                          /\ calls[w].status = HTTP_500
    /\ \E id \in DOMAIN orders : /\ orders[id].order_status = "cancelled"
                                 /\ orders[id].verified

\* C15: no step removes an order, and no step changes anything of a stored
\* order but its order_status and updated_at.
C15_OrdersKeptAndFrozen ==
    [][ /\ Len(orders') >= Len(orders)
        /\ \A id \in DOMAIN orders :
              [orders'[id] EXCEPT !.order_status = orders[id].order_status,
                                  !.updated_at = orders[id].updated_at]
                 = orders[id]
      ]_vars

\* C15 witness: an order created at one instant was cancelled at a later
\* one by a cancel request, and its record is still stored
C15_Witness ==
    \E w \in Workers :
       /\ calls[w].op = "cancel" /\ Returned(calls[w])
       /\ calls[w].status = HTTP_200
       /\ orders[calls[w].order].order_status = "cancelled"
       /\ orders[calls[w].order].updated_at
             > orders[calls[w].order].created_at

\* Prices in integer minor units: every price is a whole number of units
ValidIntent(order) ==
    /\ Len(order.books) >= 1
    /\ \A k \in DOMAIN order.books : order.books[k].price % PriceScale = 0

RECURSIVE ItemsTotal(_, _)
\* The sum of price x quantity over the first n submitted items
ItemsTotal(books, n) ==
    IF n = 0 THEN 0
    ELSE books[n].price * books[n].quantity + ItemsTotal(books, n - 1)

\* C16: the Order made from a valid intent by initiate and the verify request
\* that follows it has a total equal to the sum of price x quantity over
\* the submitted items, which is the total initiate returned; its status is
\* verified and verified is TRUE.
C16_OrderTotalIsSumOfItems ==
    \A i \in DOMAIN orders :
       LET sub == issued[origin[i].token] IN
       ValidIntent(sub.order) =>
          /\ orders[i].total_amount * PriceScale
                = ItemsTotal(sub.order.books, Len(sub.order.books))
          /\ orders[i].total_amount * PriceScale = sub.total_amount
          /\ orders[i].book_list = sub.order.books
          /\ orders[i].order_status = "verified"
          /\ orders[i].verified

\* C16 witness: an order was made from a valid intent of two items, one of
\* them with a quantity above one
C16_Witness ==
    \E i \in DOMAIN orders :
       LET sub == issued[origin[i].token] IN
       /\ ValidIntent(sub.order)
       /\ Len(sub.order.books) = 2
       /\ sub.order.books[1].price # sub.order.books[2].price
       /\ sub.order.books[2].quantity > 1
       /\ orders[i].total_amount > 0

\* C17: a stored session's attempts is the number of verify requests on it
\* that the provider rejected since it was created or last reset: every
\* rejection recorded against a stored session raises its stored attempts
\* by one, also when verify requests on the token overlap.
C17_EveryRejectionCounted ==
    [][ \A w \in Workers :
           LET t == calls[w].token IN
           ( /\ calls[w].op = "confirm" /\ calls[w].pc = "verify"
             /\ calls'[w].res = "rejected"
             /\ t \in DOMAIN sessions ) =>
              /\ t \in DOMAIN sessions'
              /\ sessions'[t].attempts = sessions[t].attempts + 1
      ]_vars

\* C18: a verify request and a resend-code request that race on one live
\* token end as in one of their two sequential orders.  In both orders a
\* resend-code request that found the session live and whose new PIN the
\* provider sent answers 200 and leaves the session stored, reset and
\* extended; so it does in every interleaving.
C18_ConfirmAndResendSerialized ==
    [][ \A w \in Workers :
           LET t == calls[w].token IN
           ( /\ calls[w].op = "resend" /\ calls[w].pc = "send"
             /\ ResendSend(w, "pin") ) =>
              /\ calls'[w].status = HTTP_200
              /\ t \in DOMAIN sessions'
              /\ sessions'[t].attempts = 0
              /\ sessions'[t].expires_at = now + SessionTTL
      ]_vars

\* C19: no Order is materialized from a session at or after the session's
\* expires_at, however long the provider's verifyPin call was in flight.
C19_NoOrderAtOrAfterDeadline ==
    \A i \in DOMAIN origin : origin[i].at < origin[i].expires_at

\* C20: a token whose session was consumed, deleted on exhaustion or has
\* passed its expires_at stays dead: its session is never live again, and a
\* verify or resend-code request that starts on it does not succeed.
C20_DeadSessionNeverReused ==
    [][ \A t \in Issued :
           ~LiveRow(t) =>
              /\ ~( t \in DOMAIN sessions' /\ sessions'[t].expires_at > now' )
              /\ \A w \in Workers :
                    ( /\ Free(w) /\ calls'[w] # calls[w]
                         /\ calls'[w].op \in {"confirm", "resend"}
                         /\ calls'[w].token = t )
                       => Returned(calls'[w]) /\ SessionInvalid(calls'[w])
      ]_vars

\* The part of C20 that the lookups enforce: a verify or resend-code
\* request that starts on a dead token is refused.
C20_DeadTokenRefusedAtLookup ==
    [][ \A t \in Issued :
           ~LiveRow(t) =>
              \A w \in Workers :
                 ( /\ Free(w) /\ calls'[w] # calls[w]
                         /\ calls'[w].op \in {"confirm", "resend"}
                         /\ calls'[w].token = t )
                    => Returned(calls'[w]) /\ SessionInvalid(calls'[w])
      ]_vars

\* C21: a resend-code request that succeeds keeps the session's token and
\* record, stores a pin_id different from the previous one, attempts 0 and
\* expires_at = now + 10 minutes, and changes no other session and no order;
\* one that starts on a live session with verified = TRUE answers
\* AlreadyConsumed and changes nothing.
C21_ResendResetsOnlyItsSession ==
    [][ \A w \in Workers :
           LET t == calls'[w].token IN
           /\ ( /\ calls[w].op = "resend" /\ calls[w].pc = "send"
                /\ calls'[w].status = HTTP_200 ) =>
                 /\ t \in DOMAIN sessions
                 /\ sessions' = [sessions EXCEPT
                                    ![t].pin_id = sessions'[t].pin_id,
                                    ![t].attempts = 0,
                                    ![t].expires_at = now + SessionTTL]
                 /\ sessions'[t].pin_id \notin {sessions[t].pin_id, NoPinId}
                 /\ orders' = orders
           /\ ( /\ Free(w) /\ calls'[w] # calls[w] /\ calls'[w].op = "resend"
                /\ LiveRow(t) /\ sessions[t].verified ) =>
                 /\ Returned(calls'[w]) /\ AlreadyConsumed(calls'[w])
                 /\ sessions' = sessions /\ orders' = orders
      ]_vars

\* The part of C21 that the code keeps: a resend-code request that succeeds
\* with no other request on its session in between resets it as stated.
C21_ResendAloneResets ==
    [][ LET c == calls[1]
            d == calls'[1]
            t == c.token
        IN
        ( c.op = "resend" /\ c.pc = "send" /\ d.status = HTTP_200 ) =>
           /\ t \in DOMAIN sessions
           /\ sessions' = [sessions EXCEPT
                              ![t].pin_id = sessions'[t].pin_id,
                              ![t].attempts = 0,
                              ![t].expires_at = now + SessionTTL]
           /\ sessions'[t].pin_id \notin {sessions[t].pin_id, NoPinId}
           /\ orders' = orders
      ]_vars

\* C22: when the sendPin call of a resend-code request fails, or returns no
\* pinId, the request answers ProviderUnavailable and every stored session
\* keeps its pin_id, attempts and expires_at.
C22_ResendFailureLeavesSession ==
    [][ \A w \in Workers, sms \in SendPinOutcomes \ {"pin"} :
           ( /\ calls[w].op = "resend" /\ calls[w].pc = "send"
             /\ ResendSend(w, sms) ) =>
              /\ Returned(calls'[w]) /\ ProviderUnavailable(calls'[w])
              /\ sessions' = sessions /\ orders' = orders
      ]_vars

\* C22 witness: a resend-code request has answered ProviderUnavailable and
\* its session is stored with the rejected attempt it had counted before
C22_Witness ==
    /\ Returned(calls[1]) /\ calls[1].op = "resend"
    /\ ProviderUnavailable(calls[1])
    /\ calls[1].token \in DOMAIN sessions
    /\ sessions[calls[1].token].attempts > 0
    /\ sessions[calls[1].token].pin_id = FirstPin

\* C23: an initiate request that succeeds adds one session, under a token
\* that no stored session has and none ever had, with attempts 0, verified
\* FALSE, expires_at = now + 10 minutes and the submitted intent; every
\* session stored before and every order is unchanged.
C23_InitiateAddsOneSession ==
    [][ \A w \in Workers :
           LET r == calls[w].snap IN
           ( /\ calls[w].op = "initiate" /\ calls[w].pc = "send"
             /\ InitiateSend(w, "pin") ) =>
              /\ Returned(calls'[w]) /\ calls'[w].status = HTTP_202
              /\ \E t \in (DOMAIN sessions') \ (DOMAIN sessions) :
                    /\ DOMAIN sessions' = (DOMAIN sessions) \cup {t}
                    /\ t \notin Issued
                    /\ sessions'[t].session_token = t
                    /\ sessions'[t].phone_number = r.phone_number
                    /\ sessions'[t].attempts = 0
                    /\ ~sessions'[t].verified
                    /\ sessions'[t].expires_at = now + SessionTTL
                    /\ sessions'[t].order_data.address = r.order.address
                    /\ sessions'[t].order_data.payment_method
                          = r.order.payment_method
                    /\ sessions'[t].order_data.books = r.order.books
              /\ \A u \in DOMAIN sessions : sessions'[u] = sessions[u]
              /\ orders' = orders
      ]_vars

\* C23 witness: an initiate request has succeeded for one phone after an
\* order of the other phone was stored
C23_Witness ==
    /\ \E w \in Workers : /\ calls[w].op = "initiate" /\ Returned(calls[w])
                          /\ calls[w].status = HTTP_202
    /\ orders # <<>>
    /\ \E u \in DOMAIN sessions :
          /\ sessions[u].phone_number # orders[1].phone_number
          /\ sessions[u].created_at > orders[1].created_at

\* C24: whichever of the two mutating requests acts, an order's status only
\* moves along an edge of the transition table: never backward, and never
\* away from delivered or cancelled.
C24_StatusHistoryIsPath ==
    [][ \A id \in DOMAIN orders :
           /\ orders'[id].order_status # orders[id].order_status =>
                 <<orders[id].order_status, orders'[id].order_status>>
                    \in TransitionTable
           /\ orders[id].order_status \in {"delivered", "cancelled"} =>
                 orders'[id].order_status = orders[id].order_status
      ]_vars

\* An order id that no stored order has
MissingId == Len(orders) + 1

\* C25: with a live token, a status update or a cancel request on an order
\* of another phone number has the outcome, and leaves the state, of the
\* same request on an order id that does not exist: 404
\* (NotFoundOrUnauthorized), nothing changed.
C25_ForeignOrderLooksMissing ==
    [][ \A w \in Workers, id \in DOMAIN orders :
           ( /\ calls[w].pc = "body"
             /\ calls[w].snap.phone_number # orders[id].phone_number ) =>
              /\ \A st \in OrderStatus :
                    update_order_status(w, id, st) =>
                       /\ update_order_status(w, MissingId, st)
                       /\ calls'[w].status = HTTP_404
                       /\ orders' = orders /\ sessions' = sessions
              /\ cancel_order(w, id) =>
                    /\ cancel_order(w, MissingId)
                    /\ calls'[w].status = HTTP_404
                    /\ orders' = orders /\ sessions' = sessions
      ]_vars

\* The part of C25 that the code keeps: the request on the foreign order
\* ends as the same request on a missing order id, and changes nothing
C25_ForeignOrderIndistinguishable ==
    [][ \A w \in Workers, id \in DOMAIN orders :
           ( /\ calls[w].pc = "body"
             /\ calls[w].snap.phone_number # orders[id].phone_number ) =>
              /\ \A st \in OrderStatus :
                    update_order_status(w, id, st) =>
                       /\ update_order_status(w, MissingId, st)
                       /\ Returned(calls'[w])
                       /\ orders' = orders /\ sessions' = sessions
              /\ cancel_order(w, id) =>
                    /\ cancel_order(w, MissingId)
                    /\ calls'[w].status = HTTP_404
                    /\ orders' = orders /\ sessions' = sessions
      ]_vars

\* Token t names a live session of the phone of order id on which no
\* verify request has ever succeeded
UnverifiedTokenFor(t, id) ==
    /\ TokenValidFor(t, id)
    /\ ~sessions[t].verified
    /\ OrdersFrom(t) = {}

\* C26: a live token from initiate is accepted for status updates and
\* cancellations of every order of its phone number although its session
\* was never verified: the request passes authorization and the order
\* lookup, goes on to its write wherever the status checks allow it, and
\* the write succeeds.
C26_UnverifiedTokenAuthorizes ==
    [][ \A w \in Workers :
           LET c == calls[w]
               d == calls'[w]
           IN
           /\ ( /\ Free(w) /\ d # c /\ d.op \in {"status", "cancel"}
                /\ LiveRow(d.token) /\ ~sessions[d.token].verified
                /\ OrdersFrom(d.token) = {} ) =>
                 /\ d.pc = "body"
                 /\ d.snap.phone_number = sessions[d.token].phone_number
           /\ \A id \in DOMAIN orders :
                 ( /\ c.pc = "body" /\ OrdersFrom(c.token) = {}
                   /\ c.snap.phone_number = orders[id].phone_number ) =>
                    /\ cancel_order(w, id) =>
                          IF CancelAllowed(orders[id].order_status)
                          THEN /\ d.pc = "write" /\ d.order = id
                               /\ d.req = "cancelled"
                          ELSE d.status = HTTP_400
                    /\ \A st \in OrderStatus :
                          update_order_status(w, id, st) =>
                             IF StatusAllowed(orders[id].order_status, st)
                             THEN /\ d.pc = "write" /\ d.order = id
                                  /\ d.req = st
                             ELSE d.status = HTTP_500
           /\ ( c.pc = "write" /\ OrdersFrom(c.token) = {} /\ d # c ) =>
                 /\ d.status = HTTP_200
                 /\ orders'[c.order].order_status = c.req
                 /\ orders'[c.order].updated_at = now
      ]_vars

\* C26 witness: the one order stored was cancelled by a cancel request at
\* an instant when the session it came from had expired, so with the token
\* of a session that no verify request ever accepted
C26_Witness ==
    \E w \in Workers :
       /\ calls[w].op = "cancel" /\ Returned(calls[w])
       /\ calls[w].status = HTTP_200
       /\ OrdersFrom(calls[w].token) = {}
       /\ Len(orders) = 1
       /\ orders[1].order_status = "cancelled"
       /\ orders[1].updated_at >= origin[1].expires_at

\* C27: every stored session with verified = TRUE has an Order made from its
\* intent: the step that sets the flag is the step that inserts that Order.
C27_VerifiedSessionHasOrder ==
    [][ \A t \in DOMAIN sessions' :
           sessions'[t].verified =>
              /\ \E i \in DOMAIN orders' :
                    /\ origin'[i].token = t
                    /\ orders'[i].phone_number = sessions'[t].phone_number
                    /\ orders'[i].book_list = sessions'[t].order_data.books
              /\ ( t \in DOMAIN sessions /\ ~sessions[t].verified ) =>
                    /\ Len(orders') = Len(orders) + 1
                    /\ origin'[Len(orders')].token = t
      ]_vars

\* C27 witness: while a session is stored with verified = TRUE and its
\* Order, a second verify request on it was refused as AlreadyConsumed
C27_Witness ==
    \E w \in Workers :
       /\ Returned(calls[w]) /\ calls[w].op = "confirm"
       /\ AlreadyConsumed(calls[w])
       /\ calls[w].token \in DOMAIN sessions
       /\ sessions[calls[w].token].verified
       /\ OrdersFrom(calls[w].token) # {}

\* C28: resend-code neither consults nor feeds the per-phone rate limit: a
\* request on a live, unverified session goes on to the provider however
\* many sessions the phone has in the window, and a successful one sends
\* one more PIN and sets expires_at to now + 10 minutes without adding a
\* session record or changing the count.
C28_ResendOutsideRateLimit ==
    [][ LET c == calls[1]
            d == calls'[1]
            t == d.token
        IN
        /\ ( /\ Free(1) /\ d # c /\ d.op = "resend"
             /\ LiveRow(t) /\ ~sessions[t].verified ) =>
              d.pc = "send"
        /\ ( c.op = "resend" /\ c.pc = "send" /\ d.status = HTTP_200 ) =>
              /\ DOMAIN sessions' = DOMAIN sessions
              /\ issued' = issued
              /\ \A p \in Phones : recent_sessions(p)' = recent_sessions(p)
              /\ sessions'[t].pin_id = sessions[t].pin_id + 1
              /\ sessions'[t].expires_at = now + SessionTTL
      ]_vars

\* C28 witness: inside one rate-limit window, with the phone at its limit
\* of sessions, one session has been sent more PINs than the limit and
\* lives longer than ten minutes
C28_Witness ==
    /\ Returned(calls[1]) /\ calls[1].op = "resend"
    /\ calls[1].status = HTTP_200
    /\ recent_sessions(1) >= RateLimit
    /\ \E t \in DOMAIN sessions :
          /\ sessions[t].pin_id > RateLimit
          /\ now < sessions[t].created_at + RateWindow
          /\ sessions[t].expires_at > sessions[t].created_at + SessionTTL

====
